---- MODULE Spec2Model ----
(***************************************************************************)
(* hybrid_assembly.py: a sequential wrapper that validates three input     *)
(* files, creates an output directory, runs bbduk.sh, tadpole.sh and       *)
(* unicycler through run_cmd, renames assembly.fasta and cleans up.        *)
(*                                                                         *)
(* Paths are strings.  The filesystem is a function from the paths that    *)
(* exist to an entry: a file with its content (a sequence of text chunks)  *)
(* or a directory.  Relative paths are relative to the working directory,  *)
(* which always exists.                                                    *)
(***************************************************************************)
EXTENDS Integers, Sequences, FiniteSets, TLC

\* thread counts range over 1..MaxThreads
MaxThreads == 2

(***************************************************************************)
(* Strings and os.path                                                     *)
(***************************************************************************)
Char(s, i) == SubSeq(s, i, i)

startswith(s, prefix) ==
    Len(s) >= Len(prefix) /\ SubSeq(s, 1, Len(prefix)) = prefix

endswith(s, suffix) ==
    Len(s) >= Len(suffix) /\ SubSeq(s, Len(s) - Len(suffix) + 1, Len(s)) = suffix

\* position of the last "/" in s[1..i], 0 when there is none
RECURSIVE rfind_sep(_, _)
rfind_sep(s, i) ==
    IF i = 0 THEN 0
    ELSE IF Char(s, i) = "/" THEN i
    ELSE rfind_sep(s, i - 1)

\* s.rstrip('/')
RECURSIVE rstrip_sep(_)
rstrip_sep(s) ==
    IF s # "" /\ Char(s, Len(s)) = "/" THEN rstrip_sep(SubSeq(s, 1, Len(s) - 1))
    ELSE s

\* os.path.basename
basename(p) == SubSeq(p, rfind_sep(p, Len(p)) + 1, Len(p))

\* os.path.dirname
dirname(p) ==
    LET head == SubSeq(p, 1, rfind_sep(p, Len(p)))
    IN  IF rstrip_sep(head) = "" THEN head ELSE rstrip_sep(head)

\* os.path.join of two components
join(a, b) ==
    IF startswith(b, "/") THEN b
    ELSE IF a = "" \/ endswith(a, "/") THEN a \o b
    ELSE a \o "/" \o b

\* the name contains no path separator (a "base filename")
IsBaseName(name) == rfind_sep(name, Len(name)) = 0

(***************************************************************************)
(* Filesystem                                                              *)
(***************************************************************************)
File(data) == [kind |-> "file", data |-> data]
Dir == [kind |-> "dir", data |-> <<>>]

exists(f, p) == p \in DOMAIN f
isfile(f, p) == p \in DOMAIN f /\ f[p].kind = "file"
isdir(f, p) == p \in DOMAIN f /\ f[p].kind = "dir"

\* the directory that would hold p exists (the working directory and the
\* root always do)
ParentIsDir(f, p) == dirname(p) \in {"", "/"} \/ isdir(f, dirname(p))

write(f, p, e) == [q \in DOMAIN f \cup {p} |-> IF q = p THEN e ELSE f[q]]

unlink(f, S) == [q \in DOMAIN f \ S |-> f[q]]

\* p and everything below it
subtree(f, p) == {q \in DOMAIN f : q = p \/ startswith(q, p \o "/")}

\* os.listdir
listdir(f, d) == {basename(q) : q \in {r \in DOMAIN f : r # d /\ dirname(r) = d}}

\* a result of a filesystem call: ok = FALSE when it raised
Ok(f) == [ok |-> TRUE, fs |-> f]
Raised(f) == [ok |-> FALSE, fs |-> f]

\* os.makedirs(name): creates the missing parents, then the leaf; raises
\* when the leaf exists or a parent is not a directory
RECURSIVE makedirs(_, _)
makedirs(f, name) ==
    LET head == dirname(name)
        tail == basename(name)
        r == IF head # "" /\ tail # "" /\ ~exists(f, head)
             THEN makedirs(f, head) ELSE Ok(f)
    IN  IF ~r.ok THEN r
        ELSE IF exists(r.fs, name) \/ ~ParentIsDir(r.fs, name) THEN Raised(r.fs)
        ELSE Ok(write(r.fs, name, Dir))

\* os.rename(src, dst) for an existing src whose target is free or a file
rename(f, src, dst) ==
    LET moved == subtree(f, src)
        to(q) == dst \o SubSeq(q, Len(src) + 1, Len(q))
        kept == (DOMAIN f \ moved)
    IN  [q \in kept \cup {to(r) : r \in moved} |->
            IF \E r \in moved : to(r) = q
            THEN f[CHOOSE r \in moved : to(r) = q]
            ELSE f[q]]

\* a move that skips a missing source instead of raising
move_if_present(f, src, dst) ==
    LET real_dst == IF isdir(f, dst) THEN join(dst, basename(src)) ELSE dst
    IN  IF isdir(f, dst) /\ src = dst THEN Ok(f)
        ELSE IF isdir(f, dst) /\ exists(f, real_dst) THEN Raised(f)
        ELSE IF ~exists(f, src) THEN Ok(f)
        ELSE IF ~ParentIsDir(f, real_dst) THEN Raised(f)
        ELSE IF src = real_dst THEN Ok(f)
        ELSE IF isdir(f, src) /\ exists(f, real_dst) THEN Raised(f)
        ELSE Ok(rename(f, src, real_dst))

\* shutil.move(src, dst)
move(f, src, dst) ==
    LET real_dst == IF isdir(f, dst) THEN join(dst, basename(src)) ELSE dst
    IN  IF isdir(f, dst) /\ src = dst THEN Ok(f)
        ELSE IF isdir(f, dst) /\ exists(f, real_dst) THEN Raised(f)
        ELSE IF ~exists(f, src) THEN Raised(f)
        ELSE IF ~ParentIsDir(f, real_dst) THEN Raised(f)
        ELSE IF src = real_dst THEN Ok(f)
        ELSE IF isdir(f, src) /\ exists(f, real_dst) THEN Raised(f)
        ELSE Ok(rename(f, src, real_dst))

\* glob.glob(pathname) for a pattern whose last component is "*" followed
\* by a literal suffix: names starting with "." are never matched
ishidden(name) == startswith(name, ".")

glob(f, pathname) ==
    LET d == dirname(pathname)
        pat == basename(pathname)
    IN  IF ~isdir(f, d) THEN {}
        ELSE {join(d, n) : n \in {m \in listdir(f, d) :
                                    ~ishidden(m) /\ endswith(m, Tail(pat))}}

\* shutil.rmtree(path, ignore_errors=True)
rmtree_ignore_errors(f, path) ==
    IF ~isdir(f, path) THEN Ok(f) ELSE Ok(unlink(f, subtree(f, path)))

\* shutil.rmtree(path)
rmtree(f, path) ==
    IF ~isdir(f, path) THEN Raised(f) ELSE Ok(unlink(f, subtree(f, path)))

(***************************************************************************)
(* External tools.  A tool is a black box: proc says which entries it      *)
(* writes, what it prints and its exit status.                             *)
(***************************************************************************)
\* trim_reads: the command line
trim_reads_cmd(forward_in, reverse_in, forward_trimmed, reverse_trimmed, threads) ==
    "bbduk.sh in=" \o forward_in \o " in2=" \o reverse_in
        \o " out=" \o forward_trimmed \o " out2=" \o reverse_trimmed
        \o " ref=adapters trimq=10 qtrim=w minlength=50 threads=" \o ToString(threads)

\* correct_reads: the command line
correct_reads_cmd(forward_in, reverse_in, forward_corrected, reverse_corrected, threads) ==
    "tadpole.sh in=" \o forward_in \o " in2=" \o reverse_in
        \o " out=" \o forward_corrected \o " out2=" \o reverse_corrected
        \o " mode=correct threads=" \o ToString(threads)

\* assemble: the command line
assemble_cmd(forward_illumina, reverse_illumina, pacbio, output_dir, threads) ==
    "unicycler -1 " \o forward_illumina \o " -2 " \o reverse_illumina
        \o " -l " \o pacbio \o " -o " \o output_dir
        \o " --no_correct -t " \o ToString(threads)

Entry(p, e) == [path |-> p, e |-> e]

Statuses(contractual) == IF contractual THEN {0} ELSE {0, 1}

\* bbduk.sh and tadpole.sh write their two out= files, or nothing
PairedTool(name, contractual, out1, out2) ==
    {[tool |-> name, writes |-> w, output |-> name \o ": done\n", status |-> st] :
        w \in (IF contractual THEN {} ELSE {{}})
                \cup {{Entry(out1, File(<<name>>)), Entry(out2, File(<<name>>))}},
        st \in Statuses(contractual)}

\* unicycler -o output_dir writes, by convention, assembly.fasta, a graph
\* file, compressed read copies and the pilon_polish directory; each may be
\* missing, and the graph file may carry a hidden name
UnicyclerFiles(output_dir, fasta, graph, reads, polish) ==
    (IF fasta THEN {Entry(join(output_dir, "assembly.fasta"), File(<<"unicycler">>))}
     ELSE {})
    \cup (IF graph # "" THEN {Entry(join(output_dir, graph), File(<<"unicycler">>))}
          ELSE {})
    \cup (IF reads THEN {Entry(join(output_dir, "reads.fastq.gz"), File(<<"unicycler">>))}
          ELSE {})
    \cup (IF polish
          THEN {Entry(join(output_dir, "pilon_polish"), Dir),
                Entry(join(output_dir, "pilon_polish/polish.fasta"), File(<<"unicycler">>))}
          ELSE {})

Unicycler(contractual, output_dir) ==
    {[tool |-> "unicycler",
      writes |-> UnicyclerFiles(output_dir, fasta, graph, reads, polish),
      output |-> "unicycler: done\n", status |-> st] :
        fasta \in (IF contractual THEN {TRUE} ELSE BOOLEAN),
        graph \in (IF contractual THEN {"assembly.gfa"}
                   ELSE {"", "assembly.gfa", ".graph.gfa"}),
        reads \in (IF contractual THEN {TRUE} ELSE BOOLEAN),
        polish \in (IF contractual THEN {TRUE} ELSE BOOLEAN),
        st \in Statuses(contractual)}

\* the entries of proc the tool manages to write: a directory where nothing
\* is in the way, a file where the directory exists and no directory is in
\* the way
Written(f, proc) ==
    LET dirs == {w \in proc.writes : w.e.kind = "dir" /\ ParentIsDir(f, w.path)
                                     /\ ~exists(f, w.path)}
        with_dirs == [q \in DOMAIN f \cup {w.path : w \in dirs} |->
                        IF q \in DOMAIN f THEN f[q] ELSE Dir]
    IN  dirs \cup {w \in proc.writes : w.e.kind = "file"
                                       /\ ParentIsDir(with_dirs, w.path)
                                       /\ ~isdir(with_dirs, w.path)}

\* subprocess.call(cmd, shell=True): the filesystem after the tool ran
subprocess_call(f, proc) ==
    LET ws == Written(f, proc)
    IN  [q \in DOMAIN f \cup {w.path : w \in ws} |->
            IF \E w \in ws : w.path = q
            THEN (CHOOSE w \in ws : w.path = q).e
            ELSE f[q]]

\* logfile is <<>> for None and <<path>> otherwise
None == <<>>

\* run_cmd opening the log file with mode 'w'
run_cmd_truncating(f, cmd, logfile, proc) ==
    IF logfile = None THEN Ok(subprocess_call(f, proc))
    ELSE LET path == logfile[1]
         IN  IF isdir(f, path) \/ ~ParentIsDir(f, path) THEN Raised(f)
             ELSE LET opened == write(f, path, File(<<>>))
                      ran == subprocess_call(opened, proc)
                  IN  Ok(write(ran, path,
                               File(ran[path].data \o <<proc.output>> \o <<cmd>>)))

\* run_cmd(cmd, logfile).  With a log file: open(logfile, 'a+') raises when
\* the path is a directory or its directory is missing and creates the file
\* when it is absent; f.write(cmd) stays in the file object's buffer while
\* the child writes its output through the descriptor, and the buffer is
\* flushed when the with block closes the file.
run_cmd(f, cmd, logfile, proc) ==
    IF logfile = None THEN Ok(subprocess_call(f, proc))
    ELSE LET path == logfile[1]
         IN  IF isdir(f, path) \/ ~ParentIsDir(f, path) THEN Raised(f)
             ELSE LET opened == IF exists(f, path) THEN f ELSE write(f, path, File(<<>>))
                      ran == subprocess_call(opened, proc)
                  IN  Ok(write(ran, path,
                               File(ran[path].data \o <<proc.output>> \o <<cmd>>)))

\* file_check(file_path): the return value, and what it logs
file_check(f, file_path) == isfile(f, file_path)

file_check_errors(f, file_path) ==
    IF ~isfile(f, file_path)
    THEN <<"Your specified input file(s) could not be found! Missing file(s) were: "
            \o file_path>>
    ELSE <<>>

(***************************************************************************)
(* State                                                                   *)
(***************************************************************************)
VARIABLES
    cfg,                \* the arguments of main
    fs,                 \* the filesystem
    fs0,                \* the filesystem when this run of main started
    pc,                 \* the step main is about to take
    exit_status,        \* -1 while running, then the process exit status
    fatal_at,           \* the step at which an exception escaped, or ""
    logged,             \* the messages sent to logging, in order
    calls,              \* the external commands run so far, in order
    returncode,         \* what the last subprocess.call returned (unused)
    trimmed_forward, trimmed_reverse, corrected_forward, corrected_reverse,
    contract,           \* TRUE: the tools write exactly their conventional outputs
    run,                \* number of this run of main
    derived             \* the paths derived so far, by every run

vars == <<cfg, fs, fs0, pc, exit_status, fatal_at, logged, calls, returncode,
          trimmed_forward, trimmed_reverse, corrected_forward, corrected_reverse,
          contract, run, derived>>

locals == <<trimmed_forward, trimmed_reverse, corrected_forward, corrected_reverse>>

(***************************************************************************)
(* Path derivation (main, lines 79-82 and 108)                             *)
(***************************************************************************)
\* a trimmed path that carries the thread count
TrimmedForward_per_thread(c) ==
    join(c.output_dir, c.assembly_name \o "_t" \o ToString(c.threads)
                        \o "_trimmed_R1.fastq.gz")
\* a corrected path written with the trimmed suffix
CorrectedForward_as_trimmed(c) ==
    join(c.output_dir, c.assembly_name \o "_trimmed_R1.fastq.gz")

TrimmedForward(c) == join(c.output_dir, c.assembly_name \o "_trimmed_R1.fastq.gz")
TrimmedReverse(c) == join(c.output_dir, c.assembly_name \o "_trimmed_R2.fastq.gz")
CorrectedForward(c) == join(c.output_dir, c.assembly_name \o "_corrected_R1.fastq.gz")
CorrectedReverse(c) == join(c.output_dir, c.assembly_name \o "_corrected_R2.fastq.gz")
AssemblySource(c) == join(c.output_dir, "assembly.fasta")
FinalPath(c) == join(c.output_dir, c.assembly_name \o ".fasta")
\* the whole output directory taken for the polishing directory
PolishDir_output_dir(c) == c.output_dir
PolishDir(c) == join(c.output_dir, "pilon_polish")

\* what a run derived, with the arguments and the filesystem it ran with
Derivation(c, n, f0, kind, path) ==
    [run |-> n, output_dir |-> c.output_dir, assembly_name |-> c.assembly_name,
     threads |-> c.threads, logfile |-> c.logfile, keep_files |-> c.keep_files,
     forward_illumina |-> c.forward_illumina,
     out_existed |-> exists(f0, c.output_dir),
     kind |-> kind, path |-> path]

(***************************************************************************)
(* Inputs                                                                  *)
(***************************************************************************)
\* main's default for threads (line 62)
DefaultThreads == 8
OutputDirs == {"out"}
Names == {"test", ".t", "assembly", "pilon_polish/x"}
Threads == 1..MaxThreads
LogFiles == {None, <<"log.txt">>, <<"out">>}
\* what is at the output directory's path before the run
Scenarios == {"absent", "file", "empty", "old", "gfadir", "dstdir"}

OutDirEntries(c, scenario) ==
    LET o == c.output_dir
    IN  CASE scenario = "absent" -> {}
          [] scenario = "file" -> {Entry(o, File(<<"old">>))}
          [] scenario = "empty" -> {Entry(o, Dir)}
          [] scenario = "old" -> {Entry(o, Dir),
                                  Entry(join(o, "old.fasta"), File(<<"old">>)),
                                  Entry(join(o, "old.gfa"), File(<<"old">>))}
          [] scenario = "gfadir" -> {Entry(o, Dir),
                                     Entry(join(o, "old.gfa"), File(<<"old">>)),
                                     Entry(join(o, "d.gfa"), Dir)}
          [] scenario = "dstdir" -> {Entry(o, Dir)}
                \cup (IF IsBaseName(c.assembly_name)
                      THEN {Entry(FinalPath(c), Dir)} ELSE {})

FsOf(entries) ==
    [p \in {w.path : w \in entries} |-> (CHOOSE w \in entries : w.path = p).e]

Configs(names, threads, logfiles, forwards) ==
    [forward_illumina : forwards, reverse_illumina : {"r2.fastq.gz"},
     pacbio : {"pb.fastq.gz"}, output_dir : OutputDirs, assembly_name : names,
     threads : threads, logfile : logfiles, keep_files : BOOLEAN]

Required(c) == {c.forward_illumina, c.reverse_illumina, c.pacbio}

\* the forward reads may be the very file the trim stage will write
Forwards(names) == {"r1.fastq.gz"} \cup {join(o, n \o "_trimmed_R1.fastq.gz") :
                                            o \in OutputDirs, n \in names}

InitialFs(c, present, scenario, log_exists) ==
    LET out == FsOf(OutDirEntries(c, scenario))
        inputs == {p \in present : ParentIsDir(out, p) /\ ~exists(out, p)}
        log == IF c.logfile # None /\ log_exists /\ ~exists(out, c.logfile[1])
               THEN {c.logfile[1]} ELSE {}
    IN  [p \in DOMAIN out \cup inputs \cup log |->
            IF p \in DOMAIN out THEN out[p]
            ELSE IF p \in inputs THEN File(<<"reads">>)
            ELSE File(<<"earlier log\n">>)]

Start(c, f, contractual, n, d) ==
    /\ cfg = c
    /\ fs = f
    /\ fs0 = f
    /\ pc = "Validate"
    /\ exit_status = -1
    /\ fatal_at = ""
    /\ logged = <<>>
    /\ calls = <<>>
    /\ returncode = 0
    /\ trimmed_forward = ""
    /\ trimmed_reverse = ""
    /\ corrected_forward = ""
    /\ corrected_reverse = ""
    /\ contract = contractual
    /\ run = n
    /\ derived = d

Init ==
    \E c \in {k \in Configs(Names, {DefaultThreads}, LogFiles, Forwards(Names)) :
                k.forward_illumina \in {"r1.fastq.gz", TrimmedForward(k)}} :
      \E present \in SUBSET Required(c), scenario \in Scenarios, log_exists \in BOOLEAN :
        Start(c, InitialFs(c, present, scenario, log_exists), FALSE, 1, {})

(***************************************************************************)
(* main                                                                    *)
(***************************************************************************)
Fatal(step) ==
    /\ pc' = "Fatal"
    /\ fatal_at' = step
    /\ exit_status' = 1

\* the checks with the long reads left out
file_presence_two(f, c) ==
    <<file_check(f, c.forward_illumina), file_check(f, c.reverse_illumina)>>
    \o <<TRUE>>

\* lines 68-73: the three file checks, then sys.exit(1) if one failed
file_presence(f, c) ==
    <<file_check(f, c.forward_illumina), file_check(f, c.reverse_illumina),
      file_check(f, c.pacbio)>>

\* a validation that stops checking at the first missing file
Validate_short_circuit ==
    /\ pc = "Validate"
    /\ logged' = logged \o
         (IF ~file_check(fs, cfg.forward_illumina)
          THEN file_check_errors(fs, cfg.forward_illumina)
          ELSE IF ~file_check(fs, cfg.reverse_illumina)
          THEN file_check_errors(fs, cfg.reverse_illumina)
          ELSE file_check_errors(fs, cfg.pacbio))
    /\ IF \E i \in 1..3 : file_presence(fs, cfg)[i] = FALSE
       THEN pc' = "Aborted" /\ exit_status' = 1
       ELSE pc' = "EnsureOutputDir" /\ UNCHANGED exit_status
    /\ UNCHANGED <<cfg, fs, fs0, fatal_at, calls, returncode, locals, contract,
                   run, derived>>

Validate ==
    /\ pc = "Validate"
    /\ logged' = logged \o file_check_errors(fs, cfg.forward_illumina)
                        \o file_check_errors(fs, cfg.reverse_illumina)
                        \o file_check_errors(fs, cfg.pacbio)
    /\ IF \E i \in 1..3 : file_presence(fs, cfg)[i] = FALSE
       THEN pc' = "Aborted" /\ exit_status' = 1
       ELSE pc' = "EnsureOutputDir" /\ UNCHANGED exit_status
    /\ UNCHANGED <<cfg, fs, fs0, fatal_at, calls, returncode, locals, contract,
                   run, derived>>

\* making the directory without looking whether it is there
ensure_output_dir_unguarded(f, output_dir) == makedirs(f, output_dir)

\* lines 75-76
ensure_output_dir(f, output_dir) ==
    IF ~isdir(f, output_dir) THEN makedirs(f, output_dir) ELSE Ok(f)

\* lines 75-82: make the output directory, derive the four read paths
EnsureOutputDir ==
    /\ pc = "EnsureOutputDir"
    /\ LET r == ensure_output_dir(fs, cfg.output_dir)
       IN  /\ fs' = r.fs
           /\ IF r.ok
              THEN /\ trimmed_forward' = TrimmedForward(cfg)
                   /\ trimmed_reverse' = TrimmedReverse(cfg)
                   /\ corrected_forward' = CorrectedForward(cfg)
                   /\ corrected_reverse' = CorrectedReverse(cfg)
                   /\ derived' = derived \cup
                        {Derivation(cfg, run, fs0, "trimmed_forward", TrimmedForward(cfg)),
                         Derivation(cfg, run, fs0, "trimmed_reverse", TrimmedReverse(cfg)),
                         Derivation(cfg, run, fs0, "corrected_forward", CorrectedForward(cfg)),
                         Derivation(cfg, run, fs0, "corrected_reverse", CorrectedReverse(cfg))}
                   /\ pc' = "Trim"
                   /\ UNCHANGED <<exit_status, fatal_at>>
              ELSE /\ Fatal("EnsureOutputDir")
                   /\ UNCHANGED <<locals, derived>>
    /\ UNCHANGED <<cfg, fs0, logged, calls, returncode, contract, run>>

Call(proc, cmd, inputs, outputs, before) ==
    [tool |-> proc.tool, cmd |-> cmd, inputs |-> inputs, outputs |-> outputs,
     output |-> proc.output, wrote |-> {w.path : w \in Written(before, proc)}]

\* a stage that raises when the tool's exit status is not 0
Stage_checking(step, next, message, procs, cmd, inputs, outputs) ==
    /\ pc = step
    /\ logged' = Append(logged, message)
    /\ \E proc \in procs :
         LET r == run_cmd(fs, cmd, cfg.logfile, proc)
         IN  /\ fs' = r.fs
             /\ IF r.ok /\ proc.status = 0
                THEN /\ calls' = Append(calls, Call(proc, cmd, inputs, outputs, fs))
                     /\ returncode' = proc.status
                     /\ pc' = next
                     /\ UNCHANGED <<exit_status, fatal_at>>
                ELSE /\ Fatal(step)
                     /\ UNCHANGED <<calls, returncode>>
    /\ UNCHANGED <<cfg, fs0, locals, contract, run, derived>>

\* one stage: the progress message, then the adapter's run_cmd
Stage(step, next, message, procs, cmd, inputs, outputs) ==
    /\ pc = step
    /\ logged' = Append(logged, message)
    /\ \E proc \in procs :
         LET r == run_cmd(fs, cmd, cfg.logfile, proc)
         IN  /\ fs' = r.fs
             /\ IF r.ok
                THEN /\ calls' = Append(calls, Call(proc, cmd, inputs, outputs, fs))
                     /\ returncode' = proc.status
                     /\ pc' = next
                     /\ UNCHANGED <<exit_status, fatal_at>>
                ELSE /\ Fatal(step)
                     /\ UNCHANGED <<calls, returncode>>
    /\ UNCHANGED <<cfg, fs0, locals, contract, run, derived>>

\* a trim stage that hands over to the assembler
Trim_then_assemble ==
    Stage("Trim", "Assemble", "Trimming Illumina reads...",
          PairedTool("bbduk.sh", contract, trimmed_forward, trimmed_reverse),
          trim_reads_cmd(cfg.forward_illumina, cfg.reverse_illumina,
                         trimmed_forward, trimmed_reverse, cfg.threads),
          <<cfg.forward_illumina, cfg.reverse_illumina>>,
          <<trimmed_forward, trimmed_reverse>>)

\* lines 83-89
Trim ==
    Stage("Trim", "Correct", "Trimming Illumina reads...",
          PairedTool("bbduk.sh", contract, trimmed_forward, trimmed_reverse),
          trim_reads_cmd(cfg.forward_illumina, cfg.reverse_illumina,
                         trimmed_forward, trimmed_reverse, cfg.threads),
          <<cfg.forward_illumina, cfg.reverse_illumina>>,
          <<trimmed_forward, trimmed_reverse>>)

\* a correct stage that reads the raw reads again
Correct_raw_reads ==
    Stage("Correct", "Assemble", "Correcting Illumina reads...",
          PairedTool("tadpole.sh", contract, corrected_forward, corrected_reverse),
          correct_reads_cmd(cfg.forward_illumina, cfg.reverse_illumina,
                            corrected_forward, corrected_reverse, cfg.threads),
          <<cfg.forward_illumina, cfg.reverse_illumina>>,
          <<corrected_forward, corrected_reverse>>)

\* lines 90-96
Correct ==
    Stage("Correct", "Assemble", "Correcting Illumina reads...",
          PairedTool("tadpole.sh", contract, corrected_forward, corrected_reverse),
          correct_reads_cmd(trimmed_forward, trimmed_reverse,
                            corrected_forward, corrected_reverse, cfg.threads),
          <<trimmed_forward, trimmed_reverse>>,
          <<corrected_forward, corrected_reverse>>)

\* lines 98-104
Assemble ==
    Stage("Assemble", "Finalize",
          "Assembling using Unicycler. This will take quite a while...",
          Unicycler(contract, cfg.output_dir),
          assemble_cmd(corrected_forward, corrected_reverse, cfg.pacbio,
                       cfg.output_dir, cfg.threads),
          <<corrected_forward, corrected_reverse, cfg.pacbio>>,
          <<cfg.output_dir>>)

\* a Finalize that deletes the intermediate reads before it moves the
\* assembly
Finalize_after_deleting ==
    /\ pc = "Finalize"
    /\ LET cleared == unlink(fs, {q \in glob(fs, join(cfg.output_dir, "*.fastq.gz")) :
                                    isfile(fs, q)})
           r == move(cleared, AssemblySource(cfg), FinalPath(cfg))
       IN  /\ fs' = r.fs
           /\ IF r.ok
              THEN pc' = "CleanOrKeep" /\ UNCHANGED <<exit_status, fatal_at>>
              ELSE Fatal("Finalize")
    /\ derived' = derived \cup {Derivation(cfg, run, fs0, "final", FinalPath(cfg))}
    /\ UNCHANGED <<cfg, fs0, logged, calls, returncode, locals, contract, run>>

\* line 108
Finalize ==
    /\ pc = "Finalize"
    /\ LET r == move(fs, AssemblySource(cfg), FinalPath(cfg))
       IN  /\ fs' = r.fs
           /\ IF r.ok
              THEN pc' = "CleanOrKeep" /\ UNCHANGED <<exit_status, fatal_at>>
              ELSE Fatal("Finalize")
    /\ derived' = derived \cup {Derivation(cfg, run, fs0, "final", FinalPath(cfg))}
    /\ UNCHANGED <<cfg, fs0, logged, calls, returncode, locals, contract, run>>

\* the first glob with the pattern '*a'
gfa_files_wide(f, c) == glob(f, join(c.output_dir, "*a"))

\* lines 111-112: the two globs
gfa_files(f, c) == glob(f, join(c.output_dir, "*.gfa"))
fastq_files(f, c) == glob(f, join(c.output_dir, "*.fastq.gz"))

\* lines 113-114: os.remove of every item, first the *.gfa list, then the
\* *.fastq.gz list, each in the order the directory listing gave.  os.remove
\* raises on a directory, after the items before it have been deleted.
remove_all(f, first, second) ==
    LET files(S) == {q \in S : isfile(f, q)}
    IN  IF files(first) # first
        THEN {Raised(unlink(f, S)) : S \in SUBSET files(first)}
        ELSE IF files(second) # second
        THEN {Raised(unlink(f, first \cup S)) : S \in SUBSET files(second)}
        ELSE {Ok(unlink(f, first \cup second))}

\* cleaning whatever the flag says
cleaning_always(c) == c.keep_files \/ ~c.keep_files

\* the condition of line 109
cleaning(c) == ~c.keep_files

\* lines 109-115
CleanOrKeep ==
    /\ pc = "CleanOrKeep"
    /\ IF cleaning(cfg)
       THEN /\ logged' = Append(logged, "Cleaning up Unicycler output files...")
            /\ \E removed \in remove_all(fs, gfa_files(fs, cfg), fastq_files(fs, cfg)) :
                 LET r == IF removed.ok THEN rmtree(removed.fs, PolishDir(cfg))
                          ELSE removed
                 IN  /\ fs' = r.fs
                     /\ IF r.ok
                        THEN pc' = "Report" /\ UNCHANGED <<exit_status, fatal_at>>
                        ELSE Fatal("CleanOrKeep")
       ELSE /\ pc' = "Report"
            /\ UNCHANGED <<fs, logged, exit_status, fatal_at>>
    /\ UNCHANGED <<cfg, fs0, calls, returncode, locals, contract, run, derived>>

\* a last step that goes back to the cleanup instead of returning
Report_cleaning_again ==
    /\ pc = "Report"
    /\ pc' = "CleanOrKeep"
    /\ UNCHANGED <<cfg, fs, fs0, exit_status, fatal_at, logged, calls, returncode,
                   locals, contract, run, derived>>

\* line 116, then main returns and the script ends with status 0
Report ==
    /\ pc = "Report"
    /\ logged' = Append(logged, "Hybrid Assembly complete. Assembly file is "
                                    \o join(cfg.output_dir, cfg.assembly_name \o ".fasta"))
    /\ pc' = "Done"
    /\ exit_status' = 0
    /\ UNCHANGED <<cfg, fs, fs0, fatal_at, calls, returncode, locals, contract,
                   run, derived>>

Next ==
    \/ Validate
    \/ EnsureOutputDir
    \/ Trim
    \/ Correct
    \/ Assemble
    \/ Finalize
    \/ CleanOrKeep
    \/ Report

Spec == Init /\ [][Next]_vars

Terminal == pc \in {"Aborted", "Fatal", "Done"}

\* the positions of main
Positions == {"Validate", "EnsureOutputDir", "Trim", "Correct", "Assemble",
              "Finalize", "CleanOrKeep", "Report", "Aborted", "Fatal", "Done"}

\* control leaves a position that is not terminal
Returns == ~Terminal /\ pc' \in Positions \ {pc}

\* main is one sequential thread, every external command returns and every
\* library call returns or raises: control does not stay for ever at a
\* position that is not terminal
SpecFair == Init /\ [][Next]_vars /\ WF_pc(Returns)

TypeOK ==
    /\ pc \in {"Validate", "EnsureOutputDir", "Trim", "Correct", "Assemble",
               "Finalize", "CleanOrKeep", "Report", "Aborted", "Fatal", "Done"}
    /\ exit_status \in {-1, 0, 1}
    /\ Len(calls) <= 3
    /\ \A p \in DOMAIN fs : ParentIsDir(fs, p)

(***************************************************************************)
(* Running main again on the filesystem the previous run left, with tools  *)
(* that write their conventional outputs.                                  *)
(***************************************************************************)
RunForwards == {"r1.fastq.gz", "lane2_R1.fastq.gz"}
RunConfigs == Configs(Names, Threads, {None, <<"log.txt">>}, RunForwards)

InitRuns ==
    \E c \in RunConfigs :
        Start(c, InitialFs(c, Required(c) \cup RunForwards, "absent", FALSE), TRUE, 1, {})

Rerun ==
    /\ Terminal
    /\ run = 1
    /\ \E c \in RunConfigs :
        /\ cfg' = c
        /\ fs' = fs
        /\ fs0' = fs
        /\ pc' = "Validate"
        /\ exit_status' = -1
        /\ fatal_at' = ""
        /\ logged' = <<>>
        /\ calls' = <<>>
        /\ returncode' = 0
        /\ trimmed_forward' = ""
        /\ trimmed_reverse' = ""
        /\ corrected_forward' = ""
        /\ corrected_reverse' = ""
        /\ run' = run + 1
    /\ UNCHANGED <<contract, derived>>

NextRuns ==
    \/ Next
    \/ Rerun

SpecRuns == InitRuns /\ [][NextRuns]_vars

(***************************************************************************)
(* Properties                                                              *)
(***************************************************************************)
InputMissing == \E p \in Required(cfg) : ~exists(fs0, p)

\* C1: when one of the three input files does not exist, the run does
\* nothing but validate and abort: it ends Aborted with exit status 1, the
\* filesystem is untouched (the output directory is not created) and no
\* external command is run.
C1_MissingInputAborts ==
    InputMissing =>
        /\ pc \in {"Validate", "Aborted"}
        /\ calls = <<>>
        /\ fs = fs0
        /\ pc = "Aborted" => exit_status = 1

C1_Witness ==
    /\ pc = "Aborted"
    /\ exit_status = 1
    /\ isfile(fs0, cfg.forward_illumina)
    /\ isfile(fs0, cfg.reverse_illumina)
    /\ ~exists(fs0, cfg.pacbio)
    /\ ~exists(fs, cfg.output_dir)

OutNames == listdir(fs, cfg.output_dir)

\* C2 (as claimed): after a successful run without keep_files the output
\* directory holds exactly one .fasta entry, <assembly_name>.fasta, no .gfa
\* entry, no .fastq.gz entry and no pilon_polish, whatever the directory
\* held before and whatever the tools wrote.
C2_Claim ==
    (pc = "Done" /\ ~cfg.keep_files) =>
        /\ {n \in OutNames : endswith(n, ".fasta")} = {cfg.assembly_name \o ".fasta"}
        /\ isfile(fs, FinalPath(cfg))
        /\ \A n \in OutNames : ~endswith(n, ".gfa") /\ ~endswith(n, ".fastq.gz")
        /\ "pilon_polish" \notin OutNames

WrittenByTools == UNION {calls[i].wrote : i \in 1..Len(calls)}

\* C3: with keep_files, CleanOrKeep changes nothing in the filesystem, and
\* at the end of a successful run everything the three tools wrote (except
\* assembly.fasta, which was renamed) is still there, next to
\* <assembly_name>.fasta.
C3_KeepFilesKeepsAll ==
    /\ []((pc \in {"Report", "Done"} /\ cfg.keep_files) =>
            /\ \A p \in WrittenByTools : p # AssemblySource(cfg) => exists(fs, p)
            /\ exists(fs, FinalPath(cfg)))
    /\ [][(pc = "CleanOrKeep" /\ cfg.keep_files) => fs' = fs]_vars

C3_Witness ==
    /\ pc = "Done"
    /\ cfg.keep_files
    /\ \A i \in 1..3 : calls[i].wrote # {}
    /\ isdir(fs, PolishDir(cfg))
    /\ isfile(fs, trimmed_forward)
    /\ isfile(fs, corrected_reverse)
    /\ \E n \in OutNames : endswith(n, ".gfa")

LogPath == cfg.logfile[1]
LogData(f) == IF cfg.logfile # None /\ isfile(f, LogPath) THEN f[LogPath].data ELSE <<>>
IsPrefix(a, b) == Len(a) <= Len(b) /\ SubSeq(b, 1, Len(a)) = a

\* C4 (as claimed): with a log file, after a run the log holds the three
\* command lines in stage order, and each command line comes before the
\* output of that command.
C4_Claim ==
    (pc = "Done" /\ cfg.logfile # None) =>
        LET log == LogData(fs)
            old == Len(LogData(fs0))
            at(x) == {i \in DOMAIN log : i > old /\ log[i] = x}
        IN  /\ \A k \in 1..Len(calls) : at(calls[k].cmd) # {}
            /\ \A k, m \in 1..Len(calls) :
                 k < m => \E i \in at(calls[k].cmd), j \in at(calls[m].cmd) : i < j
            /\ \A k \in 1..Len(calls) :
                 \A j \in at(calls[k].output) :
                    \E i \in at(calls[k].cmd) : i < j

\* C5: a run_cmd call with a log file only appends: what the log held before
\* the call is a prefix of what it holds after.
C5_LogOnlyGrows ==
    [][(pc \in {"Trim", "Correct", "Assemble"} /\ cfg.logfile # None)
        => IsPrefix(LogData(fs), LogData(fs'))]_vars

C5_Witness ==
    /\ pc = "Finalize"
    /\ cfg.logfile # None
    /\ isfile(fs0, LogPath)
    /\ LogData(fs0) # <<>>
    /\ Len(LogData(fs)) = Len(LogData(fs0)) + 6

\* C6: when assembly.fasta is missing at Finalize, the step raises: the run
\* ends there with a non-zero status, stays ended, reports nothing and
\* leaves the filesystem as it was (<assembly_name>.fasta is not created).
C6_MissingAssemblyIsFatal ==
    [][/\ (pc = "Finalize" /\ ~exists(fs, AssemblySource(cfg))) =>
            /\ pc' = "Fatal"
            /\ exit_status' = 1
            /\ fs' = fs
            /\ logged' = logged
       /\ pc = "Fatal" => pc' = "Fatal"]_vars

C6_Witness ==
    /\ pc = "Fatal"
    /\ fatal_at = "Finalize"
    /\ Len(calls) = 3
    /\ ~exists(fs, AssemblySource(cfg))
    /\ ~exists(fs, FinalPath(cfg))

ArtifactSurvives ==
    (pc \in {"CleanOrKeep", "Report"} /\ ~cfg.keep_files /\ isfile(fs, FinalPath(cfg)))
        => (exists(fs', FinalPath(cfg)) /\ fs'[FinalPath(cfg)] = fs[FinalPath(cfg)])

\* C7 (as claimed): for every assembly name, once <assembly_name>.fasta is
\* in place no later step of a cleaning run deletes or changes it.
C7_Claim == [][ArtifactSurvives]_vars

\* C7 (amended): the same, for every assembly name that is a base filename
\* (no path separator).
C7_ArtifactSurvivesCleanup ==
    [][IsBaseName(cfg.assembly_name) => ArtifactSurvives]_vars

C7_Witness ==
    /\ pc = "Done"
    /\ ~cfg.keep_files
    /\ IsBaseName(cfg.assembly_name)
    /\ isfile(fs, FinalPath(cfg))
    /\ fs[FinalPath(cfg)].data = <<"unicycler">>
    /\ \E p \in WrittenByTools : ~exists(fs, p) /\ endswith(p, ".gfa")
    /\ \E p \in WrittenByTools : ~exists(fs, p) /\ endswith(p, ".fastq.gz")
    /\ PolishDir(cfg) \in WrittenByTools

ContractualAssembly ==
    /\ Len(calls) = 3
    /\ calls[3].wrote =
         {w.path : w \in UnicyclerFiles(cfg.output_dir, TRUE, "assembly.gfa", TRUE, TRUE)}

\* C8 (as claimed): inputs outside an output directory that does not exist
\* yet, no keep_files, an assembler that writes assembly.fasta, a graph
\* file, read copies and pilon_polish: the run reaches Done and the output
\* directory then holds <assembly_name>.fasta and nothing else.
C8_Claim ==
    (/\ ~exists(fs0, cfg.output_dir)
     /\ \A p \in Required(cfg) : isfile(fs0, p) /\ ~startswith(p, cfg.output_dir \o "/")
     /\ ~cfg.keep_files
     /\ ContractualAssembly) =>
        /\ pc # "Fatal"
        /\ pc = "Done" =>
             subtree(fs, cfg.output_dir) = {cfg.output_dir, FinalPath(cfg)}

Elems(t) == {t[i] : i \in DOMAIN t}

DerivedDistinct ==
    Cardinality({trimmed_forward, trimmed_reverse,
                 corrected_forward, corrected_reverse}) = 4

StageDisjoint(k) == Elems(calls[k].outputs) \cap Elems(calls[k].inputs) = {}

\* C9 (as claimed): the four derived paths are pairwise distinct and every
\* stage's output paths differ from its input paths, the user's included.
C9_Claim ==
    /\ trimmed_forward # "" => DerivedDistinct
    /\ \A k \in 1..Len(calls) : StageDisjoint(k)

\* C9 (amended): the four derived paths are pairwise distinct and the
\* correct stage's outputs differ from its inputs; the trim and assemble
\* stages' outputs differ from their inputs, the user's included, when the
\* output directory does not exist before the run and the assembly name is
\* a base filename.
C9_StagePathsDistinct ==
    /\ trimmed_forward # "" => DerivedDistinct
    /\ Len(calls) >= 2 => StageDisjoint(2)
    /\ (~exists(fs0, cfg.output_dir) /\ IsBaseName(cfg.assembly_name)) =>
            \A k \in 1..Len(calls) : StageDisjoint(k)

C9_Witness ==
    /\ Len(calls) = 3
    /\ ~exists(fs0, cfg.output_dir)
    /\ IsBaseName(cfg.assembly_name)
    /\ DerivedDistinct

\* C10: whatever two runs derive for the same output directory and assembly
\* name is the same path, whatever their thread counts, log files,
\* keep_files flags, input paths and filesystems.
C10_PathsDeterministic ==
    \A a, b \in derived :
        (a.output_dir = b.output_dir /\ a.assembly_name = b.assembly_name
            /\ a.kind = b.kind) => a.path = b.path

C10_Witness ==
    \E a, b \in derived :
        /\ a.run = 1 /\ b.run = 2
        /\ a.output_dir = b.output_dir /\ a.assembly_name = b.assembly_name
        /\ a.kind = "final" /\ b.kind = "final"
        /\ a.threads # b.threads
        /\ a.logfile # b.logfile
        /\ a.keep_files # b.keep_files
        /\ a.forward_illumina # b.forward_illumina
        /\ a.out_existed # b.out_existed
        /\ \E t \in derived : t.run = 2 /\ t.kind = "trimmed_forward"

\* C11: EnsureOutputDir on a path that is already a directory raises nothing
\* and changes nothing; and once the step has succeeded, taking it again
\* raises nothing and leaves the filesystem as the first left it.
C11_EnsureOutputDirIdempotent ==
    [][pc = "EnsureOutputDir" =>
        /\ isdir(fs, cfg.output_dir) => (pc' = "Trim" /\ fs' = fs)
        /\ pc' = "Trim" =>
             /\ isdir(fs', cfg.output_dir)
             /\ ensure_output_dir(fs', cfg.output_dir) = Ok(fs')]_vars

C11_Witness ==
    /\ pc = "Trim"
    /\ isdir(fs0, cfg.output_dir)
    /\ isfile(fs0, join(cfg.output_dir, "old.fasta"))
    /\ fs = fs0

StepOrder == <<"Validate", "EnsureOutputDir", "Trim", "Correct", "Assemble",
               "Finalize", "CleanOrKeep", "Report", "Done">>
Steps == {StepOrder[i] : i \in DOMAIN StepOrder}
StepIndex(p) == CHOOSE i \in DOMAIN StepOrder : StepOrder[i] = p
ToolOrder == <<"bbduk.sh", "tadpole.sh", "unicycler">>
ToolsRun == [i \in 1..Len(calls) |-> calls[i].tool]
\* the step a run was in when it ended, or is in
LastStep == IF pc = "Fatal" THEN fatal_at ELSE IF pc = "Aborted" THEN "Validate" ELSE pc
\* the number of tools a run has started when it is about to take step p
ToolsBefore(p) ==
    IF StepIndex(p) <= StepIndex("Trim") THEN 0
    ELSE IF p = "Correct" THEN 1
    ELSE IF p = "Assemble" THEN 2
    ELSE 3

\* one step forward in the order, or out of it
InOrder ==
    \/ /\ pc \in Steps
       /\ pc' \in Steps
       /\ StepIndex(pc') = StepIndex(pc) + 1
    \/ /\ pc = "Validate"
       /\ pc' = "Aborted"
    \/ /\ pc \in Steps \ {"Validate", "Report", "Done"}
       /\ pc' = "Fatal"
       /\ fatal_at' = pc

\* C12 (as claimed): every run that passes validation takes all the steps
\* in order and ends Done with each of the three tools run exactly once.
C12_Claim ==
    /\ [][InOrder]_vars
    /\ []((Terminal /\ pc # "Aborted") => (pc = "Done" /\ ToolsRun = ToolOrder))

\* C12 (amended): every run that passes validation takes the steps in this
\* order, none skipped or repeated, until it is Done or an exception ends
\* it; the tools are started in the order trim, correct, assemble, each at
\* most once, each only when the one before has returned, and each exactly
\* once in a run that gets to Finalize.
C12_StageOrdering ==
    /\ [][InOrder]_vars
    /\ [](/\ ToolsRun = SubSeq(ToolOrder, 1, Len(calls))
          /\ Len(calls) = ToolsBefore(LastStep))

C12_Witness ==
    /\ pc = "Done"
    /\ ToolsRun = ToolOrder
    /\ Len(logged) >= 4

\* C13: the correct command reads exactly the two paths the trim command was
\* told to write; the assemble command reads exactly the two paths the
\* correct command was told to write, takes the user's long reads as they
\* were given and the run's output directory as its output directory.
C13_PathThreading ==
    LET t == calls[1].outputs
        c == calls[2].outputs
        n == ToString(cfg.threads)
    IN  /\ Len(calls) >= 1 =>
             calls[1].cmd = "bbduk.sh in=" \o cfg.forward_illumina
                 \o " in2=" \o cfg.reverse_illumina
                 \o " out=" \o t[1] \o " out2=" \o t[2]
                 \o " ref=adapters trimq=10 qtrim=w minlength=50 threads=" \o n
        /\ Len(calls) >= 2 =>
             /\ calls[2].inputs = t
             /\ calls[2].cmd = "tadpole.sh in=" \o t[1] \o " in2=" \o t[2]
                 \o " out=" \o c[1] \o " out2=" \o c[2]
                 \o " mode=correct threads=" \o n
        /\ Len(calls) >= 3 =>
             /\ calls[3].inputs = c \o <<cfg.pacbio>>
             /\ calls[3].outputs = <<cfg.output_dir>>
             /\ calls[3].cmd = "unicycler -1 " \o c[1] \o " -2 " \o c[2]
                 \o " -l " \o cfg.pacbio \o " -o " \o cfg.output_dir
                 \o " --no_correct -t " \o n

C13_Witness ==
    /\ Len(calls) = 3
    /\ calls[1].wrote = Elems(calls[2].inputs)
    /\ calls[2].wrote = Elems(calls[2].outputs)
    /\ Elems(calls[2].outputs) \subseteq Elems(calls[3].inputs)

StageSteps == {"Trim", "Correct", "Assemble"}
\* open(logfile, 'a+') would not raise
CanOpenLog(f) == cfg.logfile = None \/ (~isdir(f, LogPath) /\ ParentIsDir(f, LogPath))

\* whatever the last tool returned, a stage whose log file can be opened
\* runs its tool and hands over to the next step
StatusIgnored ==
    (pc \in StageSteps /\ CanOpenLog(fs)) =>
        /\ pc' = StepOrder[StepIndex(pc) + 1]
        /\ Len(calls') = Len(calls) + 1
        /\ calls'[Len(calls')].tool = ToolOrder[Len(calls')]

\* C14 (as claimed): the exit status of a tool never stops the run, and
\* after validation only a failing Finalize or cleanup operation does.
C14_Claim ==
    /\ [][StatusIgnored]_vars
    /\ [](pc = "Fatal" => fatal_at \in {"Finalize", "CleanOrKeep"})

\* C14 (amended): the exit status of a tool never stops the run; after
\* validation only a failing filesystem operation does: os.makedirs of the
\* output directory, open of the log file in a stage, Finalize or cleanup.
C14_ExitStatusIgnored ==
    /\ [][StatusIgnored]_vars
    /\ [](pc = "Fatal" =>
            \/ fatal_at \in {"EnsureOutputDir", "Finalize", "CleanOrKeep"}
            \/ fatal_at \in StageSteps /\ ~CanOpenLog(fs))

C14_Witness ==
    /\ pc = "Finalize"
    /\ returncode # 0
    /\ Len(calls) = 3

MissingMessage(p) ==
    "Your specified input file(s) could not be found! Missing file(s) were: " \o p
ErrorsNaming(p) == {i \in DOMAIN logged : logged[i] = MissingMessage(p)}
ErrorsLogged == {i \in DOMAIN logged :
                    startswith(logged[i], "Your specified input file(s) could not be found!")}

\* C15: once validation is over, one error has been logged for each of the
\* three files that is missing, naming it, none for a file that is there and
\* no other error; the run was aborted exactly when some file is missing.
C15_ValidationChecksAll ==
    pc # "Validate" =>
        /\ \A p \in Required(cfg) :
             Cardinality(ErrorsNaming(p)) = (IF isfile(fs0, p) THEN 0 ELSE 1)
        /\ Cardinality(ErrorsLogged) = Cardinality({p \in Required(cfg) : ~isfile(fs0, p)})
        /\ pc = "Aborted" <=> \E p \in Required(cfg) : ~isfile(fs0, p)

C15_Witness ==
    /\ pc = "Aborted"
    /\ isfile(fs0, cfg.reverse_illumina)
    /\ ~isfile(fs0, cfg.forward_illumina)
    /\ ~isfile(fs0, cfg.pacbio)
    /\ Len(logged) = 2

\* the paths whose entry differs between two filesystems
Changed(f, g) ==
    {p \in DOMAIN f \cup DOMAIN g :
        p \notin DOMAIN f \/ p \notin DOMAIN g \/ f[p] # g[p]}
Deleted(f, g) == DOMAIN f \ DOMAIN g

\* C16: up to and including Finalize no step deletes anything, except that
\* a successful Finalize takes assembly.fasta away to put it under its new
\* name; a failing Finalize leaves every file where it is.
C16_FinalizeBeforeDeletion ==
    [][/\ pc # "CleanOrKeep" =>
            \/ Deleted(fs, fs') = {}
            \/ /\ Deleted(fs, fs') = {join(cfg.output_dir, "assembly.fasta")}
               /\ pc = "Finalize"
               /\ pc' = "CleanOrKeep"
       /\ (pc = "Finalize" /\ pc' = "Fatal") => fs' = fs
       /\ pc' = "CleanOrKeep" => pc = "Finalize"]_vars

C16_Witness ==
    /\ pc = "Fatal"
    /\ fatal_at = "Finalize"
    /\ ~cfg.keep_files
    /\ isfile(fs, trimmed_forward)
    /\ isfile(fs, corrected_forward)
    /\ isfile(fs, join(cfg.output_dir, "assembly.gfa"))
    /\ isfile(fs, join(cfg.output_dir, "reads.fastq.gz"))

\* pilon_polish is in the output directory once the assembler has run
PolishAfterAssembly ==
    LET polish == join(cfg.output_dir, "pilon_polish")
    IN  polish \in WrittenByTools \/ exists(fs0, polish)
\* what the two globs of the cleanup match
Matched(f) == gfa_files(f, cfg) \cup fastq_files(f, cfg)

\* C17 (as claimed): without keep_files and without pilon_polish after the
\* assembly, the run ends in a fatal error in cleanup, with the artifact
\* renamed and the *.gfa and *.fastq.gz files already deleted.
C17_Claim ==
    (~cfg.keep_files /\ Len(calls) = 3 /\ ~PolishAfterAssembly /\ Terminal) =>
        /\ pc = "Fatal"
        /\ fatal_at = "CleanOrKeep"
        /\ exists(fs, FinalPath(cfg))
        /\ Matched(fs) = {}

\* C17 (amended): without keep_files and without pilon_polish after the
\* assembly, the run never gets to Done: it ends in a fatal error, at
\* Finalize when the move fails, otherwise in cleanup with the artifact
\* renamed and every *.gfa and *.fastq.gz match deleted, unless a match is
\* a directory, at which os.remove has already stopped the run.  Every
\* failing cleanup operation stops the run.
C17_CleanupNotAtomic ==
    /\ []((~cfg.keep_files /\ Len(calls) = 3 /\ ~PolishAfterAssembly) =>
            /\ pc \notin {"Report", "Done"}
            /\ pc = "Fatal" =>
                 \/ fatal_at = "Finalize"
                 \/ /\ fatal_at = "CleanOrKeep"
                    /\ exists(fs, FinalPath(cfg))
                    /\ \/ Matched(fs) = {}
                       \/ \E q \in Matched(fs) : isdir(fs, q))
    /\ [][(/\ pc = "CleanOrKeep"
           /\ ~cfg.keep_files
           /\ \/ \E q \in Matched(fs) : ~isfile(fs, q)
              \/ ~isdir(fs, join(cfg.output_dir, "pilon_polish")))
          => pc' = "Fatal"]_vars

C17_Witness ==
    /\ pc = "Fatal"
    /\ fatal_at = "CleanOrKeep"
    /\ ~PolishAfterAssembly
    /\ isfile(fs, FinalPath(cfg))
    /\ Matched(fs) = {}
    /\ \E p \in WrittenByTools : endswith(p, ".gfa") /\ ~exists(fs, p)
    /\ \E p \in WrittenByTools : endswith(p, ".fastq.gz") /\ ~exists(fs, p)

Inside(p) == p = cfg.output_dir \/ startswith(p, cfg.output_dir \o "/")
\* what the tool run by this step wrote
WrittenByStep == IF pc' = "Fatal" THEN {} ELSE calls'[Len(calls')].wrote

\* what a step of main may change besides what the tools write; the log
\* file is among it when with_log
Frame(with_log) ==
    LET ch == Changed(fs, fs')
        out == cfg.output_dir
        src == join(out, "assembly.fasta")
        dst == join(out, cfg.assembly_name \o ".fasta")
        polish == join(out, "pilon_polish")
        log == IF with_log /\ cfg.logfile # None THEN {LogPath} ELSE {}
    IN  /\ pc \in {"Validate", "Report"} => ch = {}
        /\ pc = "EnsureOutputDir" =>
             \A p \in ch : /\ p = out \/ startswith(out, p \o "/")
                           /\ ~exists(fs, p)
                           /\ isdir(fs', p)
        /\ pc \in StageSteps => ch \subseteq WrittenByStep \cup log
        /\ pc = "Finalize" =>
             /\ ch \subseteq {src, dst, join(dst, "assembly.fasta")}
             /\ ch # {} => ~exists(fs', src) /\ fs[src] \in {fs'[q] : q \in ch \ {src}}
        /\ pc = "CleanOrKeep" =>
             /\ cfg.keep_files => ch = {}
             /\ \A p \in ch :
                  /\ ~exists(fs', p)
                  /\ \/ /\ dirname(p) = out
                        /\ endswith(basename(p), ".gfa")
                             \/ endswith(basename(p), ".fastq.gz")
                     \/ p = polish
                     \/ startswith(p, polish \o "/")
        /\ IsBaseName(cfg.assembly_name) =>
             \A p \in ch : ~Inside(p) => p \in log

InputsUntouched ==
    \A p \in Required(cfg) :
        (exists(fs0, p) /\ ~Inside(p)) => (exists(fs, p) /\ fs[p] = fs0[p])

\* C18 (as claimed): besides what the tools write, main only creates the
\* output directory, moves assembly.fasta to <assembly_name>.fasta and,
\* without keep_files, deletes the top-level *.gfa and *.fastq.gz entries
\* and the pilon_polish tree; it changes no file outside the output
\* directory, and the input files there stay as they were.
C18_Claim ==
    /\ [][Frame(FALSE)]_vars
    /\ []InputsUntouched

\* C18 (amended): the same, with one more change main makes itself: run_cmd
\* creates the log file and appends to it; and for an assembly name that is
\* a base filename the log file is the only file outside the output
\* directory that main changes.
C18_OrchestratorFrame ==
    /\ [][Frame(TRUE)]_vars
    /\ []InputsUntouched

C18_Witness ==
    /\ pc = "Done"
    /\ ~cfg.keep_files
    /\ ~exists(fs0, cfg.output_dir)
    /\ cfg.logfile # None
    /\ ~Inside(LogPath)
    /\ LogData(fs) # LogData(fs0)
    /\ isfile(fs, FinalPath(cfg))
    /\ \A p \in Required(cfg) : ~Inside(p) /\ fs[p] = fs0[p]
    /\ \E p \in WrittenByTools : ~exists(fs, p)

FinalMessage ==
    "Hybrid Assembly complete. Assembly file is "
        \o join(cfg.output_dir, cfg.assembly_name \o ".fasta")

\* the cleanup of a step is complete: every entry the two globs matched is
\* gone, and so is the pilon_polish tree
CleanupCompleted ==
    /\ \A p \in glob(fs, join(cfg.output_dir, "*.gfa"))
              \cup glob(fs, join(cfg.output_dir, "*.fastq.gz")) : ~exists(fs', p)
    /\ \A p \in DOMAIN fs' :
           /\ p # join(cfg.output_dir, "pilon_polish")
           /\ ~startswith(p, join(cfg.output_dir, "pilon_polish") \o "/")

FilesystemSteps ==
    {"EnsureOutputDir", "Trim", "Correct", "Assemble", "Finalize", "CleanOrKeep"}

\* C19: when control leaves every position that is not terminal, every run
\* ends, in exactly one of three terminal states and stays there: Aborted (an input is missing, exit status 1), Done (exit status
\* 0, the final artifact path logged) or a fatal error raised by a
\* filesystem operation; Done is reached only through Report, Report only
\* after a Finalize that moved the assembly and, without keep_files, after
\* a cleanup that completed.
C19_Termination ==
    /\ <>Terminal
    /\ [][~Terminal]_vars
    /\ [](~Terminal => exit_status = -1)
    /\ [](pc = "Aborted" => exit_status = 1 /\ InputMissing)
    /\ [](pc = "Fatal" => exit_status = 1 /\ fatal_at \in FilesystemSteps)
    /\ [](pc = "Done" =>
            /\ exit_status = 0
            /\ logged # <<>>
            /\ logged[Len(logged)] = FinalMessage)
    /\ [][/\ pc' = "Done" => pc = "Report"
          /\ pc' = "Report" =>
               /\ pc = "CleanOrKeep"
               /\ ~cfg.keep_files => CleanupCompleted
          /\ pc' = "CleanOrKeep" =>
               /\ pc = "Finalize"
               /\ exists(fs, join(cfg.output_dir, "assembly.fasta"))
               /\ exists(fs', join(cfg.output_dir, cfg.assembly_name \o ".fasta"))
          /\ pc' = "Aborted" => pc = "Validate"
          /\ pc' = "Fatal" => pc \in FilesystemSteps /\ fatal_at' = pc]_vars

C19_Witness ==
    /\ pc = "Done"
    /\ exit_status = 0
    /\ ~cfg.keep_files
    /\ logged[Len(logged)] = FinalMessage
    /\ ~exists(fs, join(cfg.output_dir, "pilon_polish"))
    /\ exists(fs, join(cfg.output_dir, cfg.assembly_name \o ".fasta"))
    /\ Len(calls) = 3

====
